---- MODULE Spec2Model ----
(***************************************************************************)
(* A model of pkg/store/instance.go: the PID-file liveness probe           *)
(* (ReadPIDFile) and the status reconciliation of one instance (Inspect).  *)
(*                                                                         *)
(* The environment is the instance directory (lima.yaml and the PID        *)
(* files) and the host's process table.  Inspect is modelled statement     *)
(* block by statement block; ReadPIDFile is an operator that returns the   *)
(* pid, the error and the file system it leaves behind.                    *)
(***************************************************************************)
EXTENDS Integers, Sequences, FiniteSets, TLC

\* Largest process id a PID file records in the model.
MaxPid == 1
\* Largest port number a configuration or an Info reply carries in the model.
MaxPort == 1
\* Most Inspect calls made one after the other on one instance.
MaxCalls == 2
\* Longest list of instances handed to PrintInstances.
MaxInstances == 3
\* Number of ReadPIDFile calls running side by side.
MaxProbers == 2

(***************************************************************************)
(* Status (instance.go:27-34)                                              *)
(***************************************************************************)
StatusUnknown == ""
StatusBroken == "Broken"
StatusStopped == "Stopped"
StatusRunning == "Running"

(***************************************************************************)
(* Names inside the instance directory (package filenames, used at         *)
(* instance.go:78, 105, 112 and 130).                                      *)
(***************************************************************************)
VMTypes == {"qemu", "vz"}
LimaYAML == "lima.yaml"
HostAgentPID == "ha.pid"
HostAgentSock == "ha.sock"
PIDFile(vmType) == IF vmType = "qemu" THEN "qemu.pid" ELSE "vz.pid"
PIDPaths == {HostAgentPID} \cup {PIDFile(v) : v \in VMTypes}

(***************************************************************************)
(* Errors.  An error is its kind and the name (path, socket, backend) its  *)
(* text refers to; NoErr is Go's nil.                                      *)
(***************************************************************************)
NoErr == [kind |-> "nil", ref |-> ""]
Err(kind, ref) == [kind |-> kind, ref |-> ref]

(***************************************************************************)
(* The environment.                                                        *)
(*                                                                         *)
(* A PID file is absent, unreadable (os.ReadFile fails with an error that  *)
(* is not ErrNotExist), text that is no integer, or text that trims and    *)
(* parses to an integer.  strconv.Atoi accepts a sign, so a file can       *)
(* record a negative number: kill(2) reads it as a process group.          *)
(***************************************************************************)
GroupPid == 0 - 2
PidValues == {GroupPid} \cup (0 .. MaxPid)
Absent == [kind |-> "absent", val |-> 0]
Unreadable == [kind |-> "unreadable", val |-> 0]
Garbage == [kind |-> "garbage", val |-> 0]
IntText(n) == [kind |-> "int", val |-> n]
Contents == {Absent, Unreadable, Garbage} \cup {IntText(n) : n \in PidValues}

\* What FindProcess followed by Signal(0) answers for a process id:
\*   "ok"     the signal was delivered (the process is alive)
\*   "done"   os.ErrProcessDone
\*   "perm"   os.ErrPermission
\*   "other"  any other error of Signal
\*   "nofind" os.FindProcess itself failed
ProbeOutcomes == {"ok", "done", "perm", "other", "nofind"}
ProbedPids == PidValues \ {0}

Ports == 0 .. MaxPort

\* The message template of a configuration: empty, a text that renders,
\* a syntax error, or a reference to a field that does not exist.
Templates == {"empty", "text", "badSyntax", "badField"}

\* lima.yaml: the directory is missing, the file is missing, the file does
\* not load, or it loads to a configuration.
NoDir == [kind |-> "nodir", vmType |-> "", port |-> 0, msg |-> "empty"]
NoYAML == [kind |-> "absent", vmType |-> "", port |-> 0, msg |-> "empty"]
BadYAML == [kind |-> "malformed", vmType |-> "", port |-> 0, msg |-> "empty"]
GoodYAML(v, p, m) == [kind |-> "valid", vmType |-> v, port |-> p, msg |-> m]

VARIABLES
    files,    \* PID path -> content
    procs,    \* process id -> outcome of the liveness probe
    yaml,     \* state of the configuration document
    pc,       \* position of the Inspect call in progress
    inst,     \* the *Instance under construction
    ret,      \* what the last Inspect call returned
    obs,      \* what the call in progress has done so far
    rpf,      \* the last direct ReadPIDFile call
    rpfPrev,  \* the direct ReadPIDFile call before it
    prn,      \* the PrintInstances call in progress and its writer
    thr       \* ReadPIDFile calls running side by side on one path

vars == <<files, procs, yaml, pc, inst, ret, obs, rpf, rpfPrev, prn, thr>>
envVars == <<files, procs, yaml>>
inspectVars == <<pc, inst, ret, obs>>
probeVars == <<rpf, rpfPrev>>

(***************************************************************************)
(* ReadPIDFile (instance.go:173-204)                                       *)
(***************************************************************************)
\* A forgotten removal of the stale file.
RemoveForgotten(fs, path) == fs

\* os.Remove(path); its error is discarded (line 194).
Remove(fs, path) == [fs EXCEPT ![path] = Absent]

\* os.FindProcess(pid) and proc.Signal(syscall.Signal(0)) (lines 187-191).
\* A handle whose Pid is 0 is "not initialized" to package os: Signal fails
\* without asking the kernel.
Probe(pid, pt) == IF pid = 0 THEN "other" ELSE pt[pid]
FindProcessFails(pid, pt) == Probe(pid, pt) = "nofind"

\* The permission check of lines 197-201 left out.
VerdictWithoutPermission(sig) ==
    IF sig = "done" THEN "stale" ELSE IF sig = "ok" THEN "alive" ELSE "error"

\* Every error of Signal read as "the process is gone".
VerdictAnyErrorIsStale(sig) ==
    IF sig \in {"done", "other"} THEN "stale" ELSE "alive"

\* The os.ErrProcessDone test of line 193 left out.
VerdictDoneIsError(sig) ==
    IF sig \in {"ok", "perm"} THEN "alive" ELSE "error"

\* What lines 192-203 make of the answer of Signal.
Verdict(sig) ==
    IF sig = "done" THEN "stale"                    \* 193-196
    ELSE IF sig \in {"ok", "perm"} THEN "alive"     \* 197-199, 203
    ELSE "error"                                    \* 199-201

RPFResult(pid, err, fs) == [pid |-> pid, err |-> err, fs |-> fs]

ReadPIDFile(path, fs, pt) ==
    LET c == fs[path] IN
    IF c.kind = "absent" THEN RPFResult(0, NoErr, fs)                          \* 178-180
    ELSE IF c.kind = "unreadable" THEN RPFResult(0, Err("readFile", path), fs) \* 181
    ELSE IF c.kind = "garbage" THEN RPFResult(0, Err("atoi", path), fs)        \* 183-186
    ELSE LET pid == c.val IN
         IF FindProcessFails(pid, pt)
         THEN RPFResult(0, Err("findProcess", ""), fs)                         \* 187-190
         ELSE LET v == Verdict(Probe(pid, pt)) IN
              IF v = "stale" THEN RPFResult(0, NoErr, Remove(fs, path))        \* 193-196
              ELSE IF v = "error" THEN RPFResult(0, Err("signal", ""), fs)     \* 199-201
              ELSE RPFResult(pid, NoErr, fs)                                   \* 203

(***************************************************************************)
(* Inspect (instance.go:64-171), one operator per statement block.  The    *)
(* fields copied from the configuration that no later statement reads      *)
(* (Arch, CPUType, CPUs, Memory, Disk, AdditionalDisks, Networks) are left *)
(* out; VMType and SSHLocalPort are kept.                                  *)
(***************************************************************************)
\* &Instance{Name: instName, Status: StatusUnknown} (lines 67-70): every
\* other field has Go's zero value.
ZeroInst ==
    [Status |-> StatusUnknown, Dir |-> "", VMType |-> "", SSHLocalPort |-> 0,
     HostAgentPID |-> 0, DriverPID |-> 0, Errors |-> <<>>, Message |-> "",
     Config |-> FALSE]
\* No Inspect call has returned yet; "some" says the *Instance is not nil.
NoRet == [some |-> FALSE, inst |-> ZeroInst, err |-> NoErr]

Names == {"default", "bad/name"}
ValidNames == {"default"}

\* InstanceDir "validates the instName but does not check whether the
\* instance exists" (line 71): it fails on a name that is no identifier.
InstanceDir(name) ==
    IF name \in ValidNames
    THEN [dir |-> "instdir", err |-> NoErr]
    ELSE [dir |-> "", err |-> Err("invalidName", name)]

\* LoadYAMLByFilePath(yamlPath): a not-exist error when the directory or
\* the file is missing, another error when the document does not load.
LoadYAMLByFilePath(doc) ==
    IF doc.kind \in {"nodir", "absent"} THEN [y |-> doc, err |-> Err("notExist", LimaYAML)]
    ELSE IF doc.kind = "malformed" THEN [y |-> doc, err |-> Err("loadYAML", LimaYAML)]
    ELSE [y |-> doc, err |-> NoErr]

\* errors.Is(err, os.ErrNotExist)
IsNotExist(err) == err.kind = "notExist"

\* The error put in front of the list.
AppendErrInFront(i, e) == [i EXCEPT !.Errors = <<e>> \o @]

\* inst.Errors = append(inst.Errors, err)
AppendErr(i, e) == [i EXCEPT !.Errors = Append(@, e)]
Broken(i, e) == [AppendErr(i, e) EXCEPT !.Status = StatusBroken]

\* The errors.Is(err, os.ErrNotExist) test of line 81 left out: a missing
\* document handled like one that does not load.
InspectLoadWithoutNotExist(name, doc) ==
    LET d == InstanceDir(name)
        l == LoadYAMLByFilePath(doc)
        i0 == [ZeroInst EXCEPT !.Dir = d.dir]
    IN  IF d.err # NoErr
        THEN [returns |-> TRUE, inst |-> ZeroInst,
              ret |-> [some |-> FALSE, inst |-> ZeroInst, err |-> d.err]]
        ELSE IF l.err # NoErr
        THEN [returns |-> TRUE, inst |-> AppendErr(i0, l.err),
              ret |-> [some |-> TRUE, inst |-> AppendErr(i0, l.err), err |-> NoErr]]
        ELSE [returns |-> FALSE,
              inst |-> [i0 EXCEPT !.Config = TRUE, !.VMType = l.y.vmType,
                                  !.SSHLocalPort = l.y.port],
              ret |-> NoRet]

\* Lines 67-103: what the call does before the first probe.  "returns" says
\* whether the function returns here, with "ret"; otherwise "inst" goes on.
InspectLoad(name, doc) ==
    LET d == InstanceDir(name)
        l == LoadYAMLByFilePath(doc)
        i0 == [ZeroInst EXCEPT !.Dir = d.dir]
    IN  IF d.err # NoErr
        THEN [returns |-> TRUE, inst |-> ZeroInst,
              ret |-> [some |-> FALSE, inst |-> ZeroInst, err |-> d.err]]
        ELSE IF l.err # NoErr /\ IsNotExist(l.err)
        THEN [returns |-> TRUE, inst |-> i0,
              ret |-> [some |-> FALSE, inst |-> ZeroInst, err |-> l.err]]
        ELSE IF l.err # NoErr
        THEN [returns |-> TRUE, inst |-> AppendErr(i0, l.err),
              ret |-> [some |-> TRUE, inst |-> AppendErr(i0, l.err), err |-> NoErr]]
        ELSE [returns |-> FALSE,
              inst |-> [i0 EXCEPT !.Config = TRUE, !.VMType = l.y.vmType,
                                  !.SSHLocalPort = l.y.port],
              ret |-> NoRet]

\* Lines 105-109.
SetHostAgentPID(i, r) ==
    LET j == [i EXCEPT !.HostAgentPID = r.pid]
    IN  IF r.err # NoErr THEN Broken(j, r.err) ELSE j

\* The test of line 111 left out.
ContactsAlways(i) == TRUE

\* Line 111.
ContactsHostAgent(i) == i.HostAgentPID # 0

\* Lines 114-116.
ConnectFailed(i) == Broken(i, Err("connect", HostAgentSock))

\* The error appended without inst.Status = StatusBroken.
InfoFailedNotBroken(i) == AppendErr(i, Err("info", HostAgentSock))

\* Lines 121-123.
InfoFailed(i) == Broken(i, Err("info", HostAgentSock))

\* A failed query asked again, with nothing recorded.
OnInfoErrorRetry(i) == [inst |-> i, pc |-> "info"]

\* Lines 121-128: a failed query is recorded and the call goes on to the
\* driver probe of line 130.
OnInfoError(i) == [inst |-> InfoFailed(i), pc |-> "probeDriver"]

\* The reply's port dropped.
ApplyInfoDropped(i, port) == i

\* Line 125.
ApplyInfo(i, port) == [i EXCEPT !.SSHLocalPort = port]

\* Lines 130-134.
SetDriverPID(i, r) ==
    LET j == [i EXCEPT !.DriverPID = r.pid]
    IN  IF r.err # NoErr THEN Broken(j, r.err) ELSE j

\* The test of line 136 left out.
AssignStatusUnguarded(i) ==
    IF i.HostAgentPID > 0 /\ i.DriverPID > 0
    THEN [i EXCEPT !.Status = StatusRunning]
    ELSE IF i.HostAgentPID = 0 /\ i.DriverPID = 0
         THEN [i EXCEPT !.Status = StatusStopped]
    ELSE IF i.HostAgentPID > 0 /\ i.DriverPID = 0
         THEN Broken(i, Err("hostAgentWithoutDriver", ""))
    ELSE Broken(i, Err("driverWithoutHostAgent", i.VMType))

\* Lines 136-148.
AssignStatus(i) ==
    IF i.Status # StatusUnknown THEN i
    ELSE IF i.HostAgentPID > 0 /\ i.DriverPID > 0
         THEN [i EXCEPT !.Status = StatusRunning]
    ELSE IF i.HostAgentPID = 0 /\ i.DriverPID = 0
         THEN [i EXCEPT !.Status = StatusStopped]
    ELSE IF i.HostAgentPID > 0 /\ i.DriverPID = 0
         THEN Broken(i, Err("hostAgentWithoutDriver", ""))
    ELSE Broken(i, Err("driverWithoutHostAgent", i.VMType))

\* template.New("format").Parse(y.Message) and tmpl.Execute: what the
\* template of the configuration does.
ParseFails(msg) == msg = "badSyntax"
ExecuteFails(msg) == msg = "badField"
Rendered(msg) == IF msg = "text" THEN "message" ELSE ""

\* The error of AddGlobalFields (lines 156-159) ignored.
RenderMessageIgnoresGlobals(i, msg, globalsOK) ==
    IF ParseFails(msg) THEN Broken(i, Err("templateParse", "message"))
    ELSE IF ExecuteFails(msg) THEN Broken(i, Err("templateExecute", "message"))
    ELSE [i EXCEPT !.Message = Rendered(msg)]

\* Lines 150-169; globalsOK says whether AddGlobalFields (214-233) succeeded.
RenderMessage(i, msg, globalsOK) ==
    IF ParseFails(msg) THEN Broken(i, Err("templateParse", "message"))
    ELSE IF ~globalsOK THEN Broken(i, Err("globalFields", ""))
    ELSE IF ExecuteFails(msg) THEN Broken(i, Err("templateExecute", "message"))
    ELSE [i EXCEPT !.Message = Rendered(msg)]

(***************************************************************************)
(* PrintInstances (instance.go:237-285).  The writer w is the sequence of  *)
(* the pieces written to it.  An instance is its name and what executing   *)
(* a template on it does: "ok" renders it, "early" fails before anything   *)
(* is written, "late" fails after part of the rendering went to w.         *)
(***************************************************************************)
Formats == {"json", "yaml", "table", "{{.Name}}", "{{.Name"}
InstanceNames == {"a", "b"}
Instances == [name : InstanceNames, exec : {"ok", "early", "late"}]
InstanceLists == UNION {[1 .. n -> Instances] : n \in 0 .. MaxInstances}

\* Lines 238-242 and 271-273: the format that reaches template.Parse.
TemplateOf(format) ==
    CASE format = "json" -> "{{json .}}"
      [] format = "yaml" -> "{{yaml .}}"
      [] OTHER -> format
\* template.New("format").Funcs(...).Parse(format), line 274.
FormatParseFails(tmpl) == tmpl = "{{.Name"

Row(i, tmpl) == [kind |-> "row", name |-> i.name, tmpl |-> tmpl]
PartialRow(i, tmpl) == [kind |-> "partial", name |-> i.name, tmpl |-> tmpl]
Newline == [kind |-> "newline", name |-> "", tmpl |-> ""]
TableHeader == [kind |-> "header", name |-> "", tmpl |-> "table"]

NoPrint ==
    [pc |-> "idle", format |-> "", tmpl |-> "", insts |-> <<>>, k |-> 0,
     out |-> <<>>, err |-> NoErr]

\* Lines 243-270: the table goes through a tabwriter that reaches w on Flush.
TablePrinted(insts, userOK) ==
    IF ~userOK
    THEN [NoPrint EXCEPT !.pc = "done", !.format = "table", !.insts = insts,
                         !.err = Err("userCurrent", "")]
    ELSE [NoPrint EXCEPT !.pc = "done", !.format = "table", !.insts = insts,
                         !.out = <<TableHeader>>
                                 \o [k \in 1 .. Len(insts) |-> Row(insts[k], "table")]]

\* Lines 274-277.
TemplateParsed(format, insts) ==
    IF FormatParseFails(TemplateOf(format))
    THEN [NoPrint EXCEPT !.pc = "done", !.format = format, !.insts = insts,
                         !.err = Err("invalidTemplate", format)]
    ELSE [NoPrint EXCEPT !.pc = "loop", !.format = format, !.insts = insts,
                         !.tmpl = TemplateOf(format), !.k = 1]

\* A failed execution passed over: the loop goes on to the newline.
ExecutedIgnoringError(p) ==
    LET i == p.insts[p.k] IN
    IF i.exec = "ok"
    THEN [p EXCEPT !.out = Append(@, Row(i, p.tmpl)), !.pc = "newline"]
    ELSE [p EXCEPT !.out = IF i.exec = "late" THEN Append(@, PartialRow(i, p.tmpl)) ELSE @,
                   !.pc = "newline"]

\* Lines 279-282: tmpl.Execute(w, instance) on the k-th instance.
Executed(p) ==
    LET i == p.insts[p.k] IN
    IF i.exec = "ok"
    THEN [p EXCEPT !.out = Append(@, Row(i, p.tmpl)), !.pc = "newline"]
    ELSE [p EXCEPT !.out = IF i.exec = "late" THEN Append(@, PartialRow(i, p.tmpl)) ELSE @,
                   !.err = Err("execute", i.name),
                   !.pc = "done"]

\* Line 283 and the next turn of the loop.
NewlinePrinted(p) == [p EXCEPT !.out = Append(@, Newline), !.k = @ + 1, !.pc = "loop"]

(***************************************************************************)
(* ReadPIDFile calls running side by side on the supervisor's PID file:    *)
(* each goes through the read of line 176, the probe of lines 187-192 and, *)
(* on os.ErrProcessDone, the os.Remove of line 194.                        *)
(***************************************************************************)
Probers == 1 .. MaxProbers
IdleProber == [pc |-> "read", pid |-> 0, ret |-> 0, err |-> NoErr, removed |-> FALSE]
ProberDone(t, pid, err) == [t EXCEPT !.pc = "done", !.ret = pid, !.err = err]

\* Lines 176-186.
AfterRead(t, c) ==
    IF c.kind = "absent" THEN ProberDone(t, 0, NoErr)
    ELSE IF c.kind = "unreadable" THEN ProberDone(t, 0, Err("readFile", HostAgentPID))
    ELSE IF c.kind = "garbage" THEN ProberDone(t, 0, Err("atoi", HostAgentPID))
    ELSE [t EXCEPT !.pc = "probe", !.pid = c.val]

\* Lines 187-203.
AfterProbe(t, pt) ==
    IF FindProcessFails(t.pid, pt) THEN ProberDone(t, 0, Err("findProcess", ""))
    ELSE LET v == Verdict(Probe(t.pid, pt)) IN
         IF v = "stale" THEN [t EXCEPT !.pc = "remove"]
         ELSE IF v = "error" THEN ProberDone(t, 0, Err("signal", ""))
         ELSE ProberDone(t, t.pid, NoErr)

\* The error of os.Remove returned to the caller.
RemoveErrorReturned(c) == IF c = Absent THEN Err("remove", HostAgentPID) ELSE NoErr

\* Line 194: _ = os.Remove(path).
RemoveError(c) == NoErr

\* Lines 194-195.
AfterRemove(t, c) == [ProberDone(t, 0, RemoveError(c)) EXCEPT !.removed = TRUE]

(***************************************************************************)
(* Initial states: every instance directory and process table.  Only the   *)
(* backend the instance was created for writes a driver PID file, and a    *)
(* missing directory holds no file.                                        *)
(***************************************************************************)
\* What a call has done: nth counts the calls on the instance, connects
\* and infos count the uses of the socket (2 stands for "twice or more"),
\* globals is the outcome of AddGlobalFields, origin names, error by error,
\* the step that appended it.
NoObs ==
    [name |-> "", load |-> "none", y |-> NoYAML, sock |-> "none", livePort |-> 0,
     effects |-> {}, nth |-> 0, connects |-> 0, infos |-> 0, globals |-> "none",
     origin |-> <<>>]
NoCall ==
    [path |-> "", pid |-> 0, err |-> NoErr, before |-> Absent, sig |-> "none",
     changed |-> {}]

Init ==
    /\ \E b \in VMTypes :
        /\ yaml \in {NoDir, NoYAML, BadYAML}
                      \cup {GoodYAML(b, p, m) : p \in Ports, m \in Templates}
        /\ files \in [PIDPaths -> Contents]
        /\ \A v \in VMTypes \ {b} : files[PIDFile(v)] = Absent
    /\ yaml.kind = "nodir" => \A p \in PIDPaths : files[p] = Absent
    /\ procs \in [ProbedPids -> ProbeOutcomes]
    /\ pc = "idle"
    /\ inst = ZeroInst
    /\ ret = NoRet
    /\ obs = NoObs
    /\ rpf = NoCall
    /\ rpfPrev = NoCall
    /\ prn = NoPrint
    /\ thr = [start |-> files[HostAgentPID], p |-> [t \in Probers |-> IdleProber]]

(***************************************************************************)
(* A direct call of ReadPIDFile(path).                                     *)
(***************************************************************************)
CallReadPIDFile(path) ==
    LET r == ReadPIDFile(path, files, procs) IN
    /\ files' = r.fs
    /\ rpf' = [path |-> path, pid |-> r.pid, err |-> r.err, before |-> files[path],
               sig |-> IF files[path].kind = "int"
                       THEN Probe(files[path].val, procs) ELSE "none",
               changed |-> {q \in PIDPaths : r.fs[q] # files[q]}]
    /\ rpfPrev' = rpf
    /\ UNCHANGED <<procs, yaml, inspectVars, prn, thr>>

NextReadPID == \E path \in PIDPaths : CallReadPIDFile(path)

\* ReadPIDFile reads no configuration: one document stands for all.
InitReadPID == Init /\ yaml.kind = "valid" /\ yaml.port = 0 /\ yaml.msg = "empty"

SpecReadPID == InitReadPID /\ [][NextReadPID]_vars

(***************************************************************************)
(* The steps of one Inspect(instName) call.                                *)
(***************************************************************************)
Did(effect) == [obs EXCEPT !.effects = @ \cup effect]
ProbeEffects(r) == {"probe"} \cup (IF r.fs # files THEN {"remove"} ELSE {})
Once(n) == IF n < 2 THEN n + 1 ELSE 2
\* o with the step named for every error the step added to the list.
Origin(o, before, after, step) ==
    [o EXCEPT !.origin =
        @ \o [k \in 1 .. (IF Len(after.Errors) > Len(before.Errors)
                          THEN Len(after.Errors) - Len(before.Errors) ELSE 0) |-> step]]

\* Lines 66-103 of the nth call on the instance.
BeginCall(name, n) ==
    /\ pc \in {"idle", "done"}
    /\ LET h == InspectLoad(name, yaml)
           l == LoadYAMLByFilePath(yaml)
       IN  /\ inst' = h.inst
           /\ ret' = h.ret
           /\ pc' = IF h.returns THEN "done" ELSE "probeHA"
           /\ obs' = Origin([NoObs EXCEPT !.name = name, !.y = l.y, !.nth = n,
                               !.load = IF InstanceDir(name).err # NoErr THEN "none"
                                        ELSE IF l.err = NoErr THEN "ok" ELSE l.err.kind],
                            ZeroInst, h.inst, "load")
    /\ UNCHANGED <<envVars, probeVars, prn, thr>>

InspectBegin(name) == BeginCall(name, 1)

ProbeHostAgent ==
    /\ pc = "probeHA"
    /\ LET r == ReadPIDFile(HostAgentPID, files, procs)
       IN  /\ inst' = SetHostAgentPID(inst, r)
           /\ files' = r.fs
           /\ obs' = Origin(Did(ProbeEffects(r) \cup {"probeHA"}),
                            inst, SetHostAgentPID(inst, r), "probeHA")
           /\ pc' = IF ContactsHostAgent(SetHostAgentPID(inst, r))
                    THEN "connect" ELSE "probeDriver"
    /\ UNCHANGED <<procs, yaml, ret, probeVars, prn, thr>>

\* hostagentclient.NewHostAgentClient(haSock) fails or gives a client.
Connect ==
    /\ pc = "connect"
    /\ \/ /\ inst' = ConnectFailed(inst)
          /\ obs' = Origin([Did({"connect"}) EXCEPT !.sock = "connectError",
                                                   !.connects = Once(@)],
                           inst, ConnectFailed(inst), "socket")
          /\ pc' = "probeDriver"
       \/ /\ inst' = inst
          /\ obs' = [Did({"connect"}) EXCEPT !.connects = Once(@)]
          /\ pc' = "info"
    /\ UNCHANGED <<envVars, ret, probeVars, prn, thr>>

\* haClient.Info(ctx) answers with the port.
InfoReply(port) ==
    /\ pc = "info"
    /\ inst' = ApplyInfo(inst, port)
    /\ obs' = [Did({"info"}) EXCEPT !.sock = "ok", !.livePort = port,
                                   !.infos = Once(@)]
    /\ pc' = "probeDriver"
    /\ UNCHANGED <<envVars, ret, probeVars, prn, thr>>

\* haClient.Info(ctx) returns an error: the request failed ("infoError"),
\* or the three seconds of ctx ran out and the request was cancelled
\* ("timeout").
InfoError(why) ==
    /\ pc = "info"
    /\ inst' = OnInfoError(inst).inst
    /\ obs' = Origin([Did({"info"}) EXCEPT !.sock = why, !.infos = Once(@)],
                     inst, OnInfoError(inst).inst, "socket")
    /\ pc' = OnInfoError(inst).pc
    /\ UNCHANGED <<envVars, ret, probeVars, prn, thr>>

ProbeDriver ==
    /\ pc = "probeDriver"
    /\ LET r == ReadPIDFile(PIDFile(inst.VMType), files, procs)
       IN  /\ inst' = SetDriverPID(inst, r)
           /\ files' = r.fs
           /\ obs' = Origin(Did(ProbeEffects(r) \cup {"probeDriver"}),
                            inst, SetDriverPID(inst, r), "probeDriver")
    /\ pc' = "status"
    /\ UNCHANGED <<procs, yaml, ret, probeVars, prn, thr>>

FinalStatus ==
    /\ pc = "status"
    /\ inst' = AssignStatus(inst)
    /\ obs' = Origin(Did({"status"}), inst, AssignStatus(inst), "status")
    /\ pc' = "render"
    /\ UNCHANGED <<envVars, ret, probeVars, prn, thr>>

Render(globalsOK) ==
    /\ pc = "render"
    /\ inst' = RenderMessage(inst, obs.y.msg, globalsOK)
    /\ ret' = [some |-> TRUE, inst |-> RenderMessage(inst, obs.y.msg, globalsOK),
               err |-> NoErr]
    /\ obs' = Origin([Did({"render"}) EXCEPT
                         !.globals = IF ParseFails(obs.y.msg) THEN "none"
                                     ELSE IF globalsOK THEN "ok" ELSE "failed"],
                     inst, RenderMessage(inst, obs.y.msg, globalsOK), "render")
    /\ pc' = "done"
    /\ UNCHANGED <<envVars, probeVars, prn, thr>>

Next ==
    \/ \E name \in Names : InspectBegin(name)
    \/ ProbeHostAgent
    \/ Connect
    \/ \E port \in Ports : InfoReply(port)
    \/ \E why \in {"infoError", "timeout"} : InfoError(why)
    \/ ProbeDriver
    \/ FinalStatus
    \/ \E globalsOK \in BOOLEAN : Render(globalsOK)

Spec == Init /\ [][Next]_vars

(***************************************************************************)
(* Repeated Inspect calls on one instance whose configuration loads.      *)
(***************************************************************************)
InspectAgain(name) == obs.nth < MaxCalls /\ BeginCall(name, obs.nth + 1)

InitRepeat == Init /\ yaml.kind = "valid" /\ yaml.port = 0

NextRepeat ==
    \/ \E name \in Names : InspectAgain(name)
    \/ ProbeHostAgent
    \/ Connect
    \/ \E port \in Ports : InfoReply(port)
    \/ \E why \in {"infoError", "timeout"} : InfoError(why)
    \/ ProbeDriver
    \/ FinalStatus
    \/ \E globalsOK \in BOOLEAN : Render(globalsOK)

SpecRepeat == InitRepeat /\ [][NextRepeat]_vars

(***************************************************************************)
(* Inspect calls that run to completion.  The goroutine running Inspect    *)
(* takes its next step whenever one is enabled; the supervisor is under no *)
(* obligation to answer, and the only step that is sure to end the wait of *)
(* line 118 is the expiry of the 3-second context of line 116, on which    *)
(* the client returns the context's error.                                 *)
(***************************************************************************)
DeadlineExpires == InfoError("timeout")

InitLive == Init /\ yaml.kind = "valid" /\ yaml.port = 0 /\ yaml.msg = "text"

Fairness ==
    /\ WF_vars(ProbeHostAgent)
    /\ WF_vars(Connect)
    /\ WF_vars(DeadlineExpires)
    /\ WF_vars(ProbeDriver)
    /\ WF_vars(FinalStatus)
    /\ WF_vars(\E globalsOK \in BOOLEAN : Render(globalsOK))

SpecLive == InitLive /\ [][Next]_vars /\ Fairness

(***************************************************************************)
(* The steps of one PrintInstances(w, instances, format) call.             *)
(***************************************************************************)
PrintBegin(format, insts) ==
    /\ prn.pc = "idle"
    /\ format # "table"
    /\ prn' = TemplateParsed(format, insts)
    /\ UNCHANGED <<envVars, inspectVars, probeVars, thr>>

PrintTable(insts, userOK) ==
    /\ prn.pc = "idle"
    /\ prn' = TablePrinted(insts, userOK)
    /\ UNCHANGED <<envVars, inspectVars, probeVars, thr>>

PrintExecute ==
    /\ prn.pc = "loop"
    /\ prn.k <= Len(prn.insts)
    /\ prn' = Executed(prn)
    /\ UNCHANGED <<envVars, inspectVars, probeVars, thr>>

PrintNewline ==
    /\ prn.pc = "newline"
    /\ prn' = NewlinePrinted(prn)
    /\ UNCHANGED <<envVars, inspectVars, probeVars, thr>>

\* Line 285: the loop is over.
PrintReturn ==
    /\ prn.pc = "loop"
    /\ prn.k > Len(prn.insts)
    /\ prn' = [prn EXCEPT !.pc = "done"]
    /\ UNCHANGED <<envVars, inspectVars, probeVars, thr>>

NextPrint ==
    \/ \E format \in Formats, insts \in InstanceLists : PrintBegin(format, insts)
    \/ \E insts \in InstanceLists, userOK \in BOOLEAN : PrintTable(insts, userOK)
    \/ PrintExecute
    \/ PrintNewline
    \/ PrintReturn

\* PrintInstances reads no file and no process: one environment stands for all.
InitPrint == Init /\ yaml.kind = "nodir" /\ \A q \in ProbedPids : procs[q] = "done"

SpecPrint == InitPrint /\ [][NextPrint]_vars

(***************************************************************************)
(* The steps of the ReadPIDFile calls running side by side.                *)
(***************************************************************************)
ProberRead(t) ==
    /\ thr.p[t].pc = "read"
    /\ thr' = [thr EXCEPT !.p[t] = AfterRead(@, files[HostAgentPID])]
    /\ UNCHANGED <<envVars, inspectVars, probeVars, prn>>

ProberProbe(t) ==
    /\ thr.p[t].pc = "probe"
    /\ thr' = [thr EXCEPT !.p[t] = AfterProbe(@, procs)]
    /\ UNCHANGED <<envVars, inspectVars, probeVars, prn>>

ProberRemove(t) ==
    /\ thr.p[t].pc = "remove"
    /\ thr' = [thr EXCEPT !.p[t] = AfterRemove(@, files[HostAgentPID])]
    /\ files' = Remove(files, HostAgentPID)
    /\ UNCHANGED <<procs, yaml, inspectVars, probeVars, prn>>

NextConc ==
    \/ \E t \in Probers : ProberRead(t)
    \/ \E t \in Probers : ProberProbe(t)
    \/ \E t \in Probers : ProberRemove(t)

\* One configuration stands for all: ReadPIDFile reads none.
InitConc == Init /\ yaml = GoodYAML("qemu", 0, "empty") /\ files[PIDFile("qemu")] = Absent

SpecConc == InitConc /\ [][NextConc]_vars

\* A start of the instance: the supervisor gets the free process id pid and
\* writes it to its PID file.
StartInstance(pid) ==
    /\ procs[pid] = "done"
    /\ procs' = [procs EXCEPT ![pid] = "ok"]
    /\ files' = [files EXCEPT ![HostAgentPID] = IntText(pid)]
    /\ UNCHANGED <<yaml, inspectVars, probeVars, prn, thr>>

NextRace ==
    \/ \E t \in Probers : ProberRead(t)
    \/ \E t \in Probers : ProberProbe(t)
    \/ \E t \in Probers : ProberRemove(t)
    \/ \E pid \in 1 .. MaxPid : StartInstance(pid)

SpecRace == InitConc /\ [][NextRace]_vars

\* An Inspect call has returned.
Returned == pc = "done"
\* It returned an Instance.
ReturnedInst == pc = "done" /\ ret.some

(***************************************************************************)
(* Claims about Inspect, checked under Spec.                               *)
(***************************************************************************)
Settled == {StatusStopped, StatusRunning, StatusBroken}
RefCount(errors, ref) == Cardinality({k \in DOMAIN errors : errors[k].ref = ref})
SockFailures == {"connectError", "infoError", "timeout"}
\* ReadPIDFile returns the id of a live process, or 0.
Alive(pid) == pid # 0
\* An Inspect call is between its first statement and its return.
InCall == pc \notin {"idle", "done"}
IsPrefix(a, b) == Len(a) <= Len(b) /\ \A k \in 1 .. Len(a) : a[k] = b[k]
\* The place of a step in the order of Inspect's statements.
Rank(step) ==
    CASE step = "load" -> 0
      [] step = "probeHA" -> 1
      [] step = "socket" -> 2
      [] step = "probeDriver" -> 3
      [] step = "status" -> 4
      [] step = "render" -> 5
\* The errors a step can append.
ErrorsOf(step) ==
    CASE step = "load" -> {Err("loadYAML", LimaYAML)}
      [] step = "probeHA" ->
            {Err("readFile", HostAgentPID), Err("atoi", HostAgentPID),
             Err("findProcess", ""), Err("signal", "")}
      [] step = "socket" -> {Err("connect", HostAgentSock), Err("info", HostAgentSock)}
      [] step = "probeDriver" ->
            {Err(k, PIDFile(v)) : k \in {"readFile", "atoi"}, v \in VMTypes}
                \cup {Err("findProcess", ""), Err("signal", "")}
      [] step = "status" ->
            {Err("hostAgentWithoutDriver", "")}
                \cup {Err("driverWithoutHostAgent", v) : v \in VMTypes}
      [] step = "render" ->
            {Err("templateParse", "message"), Err("globalFields", ""),
             Err("templateExecute", "message")}

\* C1: every Instance that Inspect returns has Status Stopped, Running or
\* Broken, never Unknown.
C1_ReturnedStatusSettled == ReturnedInst => ret.inst.Status \in Settled

\* C2: a returned Instance whose Errors list is not empty has Status Broken.
C2_ErrorsForceBroken ==
    (ReturnedInst /\ Len(ret.inst.Errors) > 0) => ret.inst.Status = StatusBroken

\* C3: when the configuration loaded and no step before the final status
\* assignment failed, the assignment follows the truth table over the two
\* observed process ids (alive: ReadPIDFile returned a nonzero id): both
\* alive gives Running, both dead Stopped, supervisor only Broken with the
\* one error "host agent is running but driver is not", driver only Broken
\* with the one error naming the backend.
C3_TruthTable ==
    (pc = "render" /\ \A k \in DOMAIN inst.Errors :
            inst.Errors[k].kind \in {"hostAgentWithoutDriver", "driverWithoutHostAgent"})
    => /\ (Alive(inst.HostAgentPID) /\ Alive(inst.DriverPID))
            => (inst.Status = StatusRunning /\ inst.Errors = <<>>)
       /\ (~Alive(inst.HostAgentPID) /\ ~Alive(inst.DriverPID))
            => (inst.Status = StatusStopped /\ inst.Errors = <<>>)
       /\ (Alive(inst.HostAgentPID) /\ ~Alive(inst.DriverPID))
            => (inst.Status = StatusBroken
                /\ inst.Errors = <<Err("hostAgentWithoutDriver", "")>>)
       /\ (~Alive(inst.HostAgentPID) /\ Alive(inst.DriverPID))
            => (inst.Status = StatusBroken
                /\ inst.Errors = <<Err("driverWithoutHostAgent", inst.VMType)>>)

\* C4: when the instance directory or the configuration document is
\* missing, Inspect returns an error and no Instance, having probed no PID
\* file, contacted no socket and deleted no PID file.
C4_MissingIsFatal ==
    (Returned /\ yaml.kind \in {"nodir", "absent"})
    => (~ret.some /\ ret.err # NoErr /\ obs.effects = {})
C4_Witness ==
    /\ Returned /\ yaml.kind = "absent" /\ obs.name \in ValidNames
    /\ IsNotExist(ret.err)
    /\ files[HostAgentPID].kind = "int"
    /\ Probe(files[HostAgentPID].val, procs) = "done"

\* C5: the function error of Inspect is a not-exist error or nil; every
\* other failure of name resolution or configuration loading comes back in
\* Errors of a returned Instance.
C5_ErrorOnlyNotExist ==
    Returned => /\ (ret.err # NoErr => IsNotExist(ret.err))
                /\ (obs.name \notin ValidNames \/ yaml.kind = "malformed")
                      => (ret.some /\ Len(ret.inst.Errors) > 0)

\* C6: when the supervisor PID was observed live and the connection or the
\* Info query failed or timed out, the returned Instance is Broken and
\* exactly one of its errors refers to the supervisor socket.
C6_SocketFailure ==
    (ReturnedInst /\ obs.sock \in SockFailures)
    => /\ ret.inst.HostAgentPID # 0
       /\ ret.inst.Status = StatusBroken
       /\ RefCount(ret.inst.Errors, HostAgentSock) = 1
C6_Witness ==
    /\ ReturnedInst /\ obs.sock = "timeout"
    /\ Len(ret.inst.Errors) = 3
    /\ ret.inst.Errors[1].ref = HostAgentSock

\* C10: the returned SSHLocalPort is the port of the Info reply when the
\* query succeeded, and the port of the configuration in every other case
\* in which the configuration loaded.
C10_LivePortWins ==
    (ReturnedInst /\ ret.inst.Config)
    => ret.inst.SSHLocalPort = (IF obs.sock = "ok" THEN obs.livePort ELSE obs.y.port)
C10_Witness ==
    /\ ReturnedInst /\ obs.sock = "ok"
    /\ obs.livePort # obs.y.port
    /\ ret.inst.SSHLocalPort = obs.livePort

\* C12: the supervisor socket is contacted only after the supervisor probe
\* returned a nonzero id, and a call connects at most once and issues at
\* most one Info query.
C12_SocketOnce ==
    /\ obs.connects > 0 => ("probeHA" \in obs.effects /\ inst.HostAgentPID # 0)
    /\ obs.infos > 0 => obs.connects > 0
    /\ obs.connects <= 1
    /\ obs.infos <= 1
C12_Witness ==
    /\ Returned /\ obs.sock = "infoError"
    /\ obs.connects = 1 /\ obs.infos = 1

\* The stage at which the rendering of the returned call failed.
FailedStage ==
    IF ParseFails(obs.y.msg) THEN "templateParse"
    ELSE IF obs.globals = "failed" THEN "globalFields"
    ELSE IF ExecuteFails(obs.y.msg) THEN "templateExecute"
    ELSE "none"
RenderErrorCount ==
    Cardinality({k \in 1 .. Len(obs.origin) : obs.origin[k] = "render"})

\* C14: when a stage of the rendering fails (template parse, global fields,
\* template execution) the returned Instance has an empty Message, Status
\* Broken and one rendering error appended last, and the function error is
\* nil; a non-empty Message means that all three stages succeeded.
C14_RenderFailure ==
    /\ (ReturnedInst /\ "render" \in obs.effects /\ FailedStage # "none") =>
          /\ ret.err = NoErr
          /\ ret.inst.Message = ""
          /\ ret.inst.Status = StatusBroken
          /\ RenderErrorCount = 1
          /\ Len(ret.inst.Errors) = Len(obs.origin)
          /\ obs.origin[Len(obs.origin)] = "render"
          /\ ret.inst.Errors[Len(ret.inst.Errors)].kind = FailedStage
    /\ (ReturnedInst /\ ret.inst.Message # "") =>
          /\ "render" \in obs.effects
          /\ FailedStage = "none"
          /\ RenderErrorCount = 0
C14_Witness ==
    /\ ReturnedInst /\ FailedStage = "globalFields"
    /\ obs.y.msg = "text"
    /\ ret.inst.Message = "" /\ ret.inst.Status = StatusBroken
    /\ Len(ret.inst.Errors) = 3 /\ RenderErrorCount = 1

\* C16: once a step of an Inspect call has set Status to Broken, no later
\* step of the call changes it, and the later steps (driver probe, final
\* status assignment, rendering) all run before the call returns.
C16_BrokenIsSticky ==
    /\ [][(InCall /\ inst.Status = StatusBroken) => inst'.Status = StatusBroken]_vars
    /\ []((ReturnedInst /\ "probeHA" \in obs.effects) =>
            {"probeDriver", "status", "render"} \subseteq obs.effects)
C16_Witness ==
    /\ ReturnedInst /\ ret.inst.Status = StatusBroken
    /\ obs.origin = <<"probeHA", "render">>
    /\ ret.inst.HostAgentPID = 0 /\ ret.inst.DriverPID = 0
    /\ {"probeDriver", "status", "render"} \subseteq obs.effects

\* C17: the Errors list holds the soft failures in the order of the steps
\* (supervisor probe, socket, driver probe, pairing, rendering), each step
\* contributing at most one error, and a step only ever appends to it.
C17_ErrorsInOrder ==
    /\ [](/\ Len(inst.Errors) = Len(obs.origin)
          /\ \A k \in 1 .. Len(inst.Errors) : inst.Errors[k] \in ErrorsOf(obs.origin[k])
          /\ \A j, k \in 1 .. Len(obs.origin) :
                j < k => Rank(obs.origin[j]) < Rank(obs.origin[k]))
    /\ [][InCall => IsPrefix(inst.Errors, inst'.Errors)]_vars
C17_Witness ==
    /\ ReturnedInst
    /\ obs.origin = <<"socket", "probeDriver", "render">>
    /\ ret.inst.Errors[1] = Err("connect", HostAgentSock)
    /\ ret.inst.Errors[3] = Err("templateExecute", "message")

\* C20: the pairing errors agree with the liveness that ReadPIDFile
\* reported: "driver is running but host agent is not" only with a nonzero
\* DriverPID and HostAgentPID 0, "host agent is running but driver is not"
\* only with a nonzero HostAgentPID and DriverPID 0.
C20_PairingMatchesLiveness ==
    \A k \in DOMAIN inst.Errors :
        /\ inst.Errors[k].kind = "driverWithoutHostAgent"
              => (inst.DriverPID # 0 /\ inst.HostAgentPID = 0)
        /\ inst.Errors[k].kind = "hostAgentWithoutDriver"
              => (inst.HostAgentPID # 0 /\ inst.DriverPID = 0)

(***************************************************************************)
(* Claims about repeated Inspect calls, checked under SpecRepeat.          *)
(***************************************************************************)
\* The call was for a valid name and its message rendered.
CleanCall ==
    /\ Returned /\ obs.name \in ValidNames
    /\ obs.y.msg \in {"empty", "text"} /\ obs.globals = "ok"
\* No process answers a probe, and every PID file that exists can be read.
NoProcessRunning ==
    /\ \A p \in ProbedPids : procs[p] = "done"
    /\ \A path \in PIDPaths : files[path] # Unreadable
StaleOrAbsent(path) ==
    \/ files[path] = Absent
    \/ files[path].kind = "int" /\ Probe(files[path].val, procs) = "done"
StoppedNoErrors ==
    ret.some /\ ret.inst.Status = StatusStopped /\ ret.inst.Errors = <<>>

\* C11 as stated: with a valid configuration and no process running, every
\* call of a sequence returns Stopped and no errors, whatever the two PID
\* files hold.
C11_AlwaysStopped == (CleanCall /\ NoProcessRunning) => StoppedNoErrors

\* C11 as amended: with a valid configuration and each of the two PID files
\* absent or recording the id of a process that has exited, every call of a
\* sequence returns Stopped and no errors.
C11_StoppedWhenStale ==
    (CleanCall /\ StaleOrAbsent(HostAgentPID) /\ StaleOrAbsent(PIDFile(obs.y.vmType)))
    => StoppedNoErrors
C11_Witness ==
    /\ CleanCall /\ obs.nth = MaxCalls /\ StoppedNoErrors
    /\ obs.effects = {"probe", "probeHA", "probeDriver", "status", "render"}
    /\ \A p \in PIDPaths : files[p] = Absent
    /\ \E p \in ProbedPids : procs[p] = "done"

(***************************************************************************)
(* Claims about ReadPIDFile alone, checked under SpecReadPID.              *)
(***************************************************************************)
Called == rpf.path # ""

\* C7: a call on a PID file that records an exited process returns 0 and
\* nil and leaves the file absent; the next call on the same path returns
\* 0 and nil again.
C7_StaleRemoved ==
    /\ (Called /\ rpf.sig = "done")
          => (rpf.pid = 0 /\ rpf.err = NoErr /\ files[rpf.path] = Absent)
    /\ (Called /\ rpfPrev.sig = "done" /\ rpf.path = rpfPrev.path)
          => (rpf.before = Absent /\ rpf.pid = 0 /\ rpf.err = NoErr
              /\ files[rpf.path] = Absent)
C7_Witness ==
    /\ rpfPrev.before.kind = "int" /\ rpfPrev.sig = "done"
    /\ rpf.path = rpfPrev.path /\ rpf.pid = 0

\* C8: when the probe is denied for permission the call returns the
\* recorded nonzero id and nil and leaves the file; when FindProcess or the
\* probe fails in any other way but "already done" it returns 0 and an
\* error.
C8_PermissionIsAlive ==
    /\ (Called /\ rpf.sig = "perm")
          => (rpf.pid = rpf.before.val /\ rpf.pid # 0 /\ rpf.err = NoErr
              /\ files[rpf.path] = rpf.before)
    /\ (Called /\ rpf.sig \in {"other", "nofind"})
          => (rpf.pid = 0 /\ rpf.err # NoErr)
C8_Witness == Called /\ rpf.sig = "perm" /\ rpf.pid = GroupPid

\* C9: a call changes nothing but its own PID file, and that only by
\* deleting it when the recorded process is already done; on an absent file
\* it returns 0 and nil and creates nothing.
C9_OnlyStaleDeleted ==
    Called =>
        /\ rpf.changed \subseteq {rpf.path}
        /\ rpf.changed # {} => (rpf.sig = "done" /\ files[rpf.path] = Absent)
        /\ rpf.sig # "done" => files[rpf.path] = rpf.before
        /\ rpf.before = Absent => (rpf.pid = 0 /\ rpf.err = NoErr)
C9_Witness ==
    /\ Called /\ rpf.before = Garbage /\ rpf.err # NoErr
    /\ rpfPrev.before = Absent /\ rpfPrev.path # "" /\ rpfPrev.path # rpf.path

(***************************************************************************)
(* Claims about termination, checked under SpecLive.                       *)
(***************************************************************************)
TimedOut == obs.sock = "timeout"
TimeoutHandled ==
    /\ ReturnedInst /\ TimedOut
    /\ ret.err = NoErr
    /\ ret.inst.Status = StatusBroken
    /\ \E k \in 1 .. Len(ret.inst.Errors) :
          /\ ret.inst.Errors[k] = Err("info", HostAgentSock)
          /\ obs.origin[k] = "socket"
    /\ {"probeDriver", "status", "render"} \subseteq obs.effects

\* C13: every Inspect call returns, also when the supervisor never answers
\* the Info query; a query whose deadline expired is recorded as a failed
\* query (error appended, Status Broken) and the call goes on through the
\* driver probe, the final status assignment and the message rendering.
C13_TimeoutReturns ==
    /\ InCall ~> Returned
    /\ (InCall /\ TimedOut) ~> TimeoutHandled
C13_Witness == TimeoutHandled /\ obs.connects = 1 /\ obs.infos = 1

(***************************************************************************)
(* Claims about PrintInstances, checked under SpecPrint.                   *)
(***************************************************************************)
\* The renderings of the first n instances, each followed by a newline.
Rows(insts, tmpl, n) ==
    [j \in 1 .. 2 * n |->
        IF j % 2 = 1 THEN Row(insts[(j + 1) \div 2], tmpl) ELSE Newline]
TemplateFormat == prn.format \in {"json", "yaml", "{{.Name}}"}
PrintDone == prn.pc = "done" /\ TemplateFormat

\* C15: for a json, yaml or custom-template format the instances are
\* rendered in input order, each followed by a newline; when the execution
\* fails on the k-th instance the error is returned, the output holds the
\* rows of instances 1..k-1 and no completed row and no newline for the
\* k-th or a later one.
C15_PrintAborts ==
    /\ (PrintDone /\ prn.err = NoErr) =>
          /\ prn.out = Rows(prn.insts, TemplateOf(prn.format), Len(prn.insts))
          /\ \A k \in 1 .. Len(prn.insts) : prn.insts[k].exec = "ok"
    /\ (PrintDone /\ prn.err # NoErr) =>
          /\ prn.k \in 1 .. Len(prn.insts)
          /\ prn.insts[prn.k].exec # "ok"
          /\ \A k \in 1 .. prn.k - 1 : prn.insts[k].exec = "ok"
          /\ prn.err = Err("execute", prn.insts[prn.k].name)
          /\ LET written == Rows(prn.insts, TemplateOf(prn.format), prn.k - 1)
             IN  prn.out \in {written,
                              Append(written,
                                     PartialRow(prn.insts[prn.k], TemplateOf(prn.format)))}
    /\ (TemplateFormat /\ prn.pc \in {"loop", "newline"}) =>
          IsPrefix(Rows(prn.insts, TemplateOf(prn.format), prn.k - 1), prn.out)
C15_Witness ==
    /\ PrintDone /\ prn.format = "yaml"
    /\ prn.err # NoErr
    /\ Len(prn.insts) = 3 /\ prn.k = 2
    /\ prn.insts[3].exec = "ok"
    /\ prn.out = Rows(prn.insts, "{{yaml .}}", 1)

(***************************************************************************)
(* Claims about concurrent ReadPIDFile calls, checked under SpecConc and   *)
(* SpecRace.                                                               *)
(***************************************************************************)
AllProbersDone == \A t \in Probers : thr.p[t].pc = "done"
StartedStale ==
    /\ thr.start.kind = "int"
    /\ ~FindProcessFails(thr.start.val, procs)
    /\ Probe(thr.start.val, procs) = "done"
NamesLiveProcess(c) ==
    /\ c.kind = "int"
    /\ ~FindProcessFails(c.val, procs)
    /\ Probe(c.val, procs) \in {"ok", "perm"}

\* C18: ReadPIDFile calls running side by side on a path that holds the id
\* of an exited process all return 0 and no error, whatever the order of
\* their reads, probes and removals, and the file is absent when all of
\* them have returned.
C18_ConcurrentStale ==
    (StartedStale /\ AllProbersDone) =>
        /\ \A t \in Probers : thr.p[t].ret = 0 /\ thr.p[t].err = NoErr
        /\ files[HostAgentPID] = Absent
C18_Witness ==
    /\ StartedStale /\ AllProbersDone
    /\ \A t \in Probers : thr.p[t].removed /\ thr.p[t].ret = 0
    /\ files[HostAgentPID] = Absent

\* C19: a PID file whose current content names a live process is never
\* removed, whatever the order of a call's read, probe and removal and of
\* a start that rewrites the file.
C19_LiveFileNeverRemoved ==
    [][NamesLiveProcess(files[HostAgentPID]) => files'[HostAgentPID] # Absent]_vars

==============================================================================
